---- MODULE Spec2Model ----
(***************************************************************************)
(* Model of the translation console's controller (src/App.tsx): the        *)
(* debounced input, the request-id guard, the fan-out of one streaming     *)
(* translation per target language (src/unnamed/part_000,                  *)
(* streamTranslation) and the merge of the chunks into the per-language    *)
(* texts.  Texts are sequences of characters.  JavaScript runs the         *)
(* handlers one at a time, so each handler is one atomic action.           *)
(***************************************************************************)
EXTENDS Integers, Sequences, FiniteSets, TLC

VARIABLES
  inputVal,          \* App: useState('') inputVal
  debouncedValue,    \* useDebounce: debouncedValue
  timer,             \* useDebounce: the pending setTimeout, << >> or <<value>>
  elapsed,           \* the runtime's clock: ms since the pending setTimeout was set
  mounted,           \* React: the App component is mounted
  translations,      \* App: translations, language -> text
  isStreaming,       \* App: isStreaming
  error,             \* App: error, NoError or a message
  currentRequestId,  \* App: currentRequestId.current
  stream,            \* streamTranslation calls: request id -> language -> status
  pc,                \* performTranslation calls: request id -> position
  isRecording,       \* InputArea: isRecording
  isTranscribing,    \* InputArea: isTranscribing
  recorder,          \* InputArea: position of the recording started last
  closureValue,      \* InputArea: localValue as startRecording's closure holds it
  isSpeaking,        \* OutputArea: isSpeaking, per panel (language)
  tts,               \* playTextToSpeech calls in flight, per panel
  heard,             \* history: the text transcribeAudio returned last
  launched,          \* history: the streamTranslation calls the last step made
  quiet,             \* history: ms since inputVal last changed
  emitted,           \* history: chunks the streams of the latest request gave to onChunk
  nEvents,           \* history: number of user and network events of the behaviour
  last               \* history: the operation that ran last

\* the state of the InputArea and of the OutputArea panels
inputArea == <<isRecording, isTranscribing, recorder, closureValue, heard>>

outputArea == <<isSpeaking, tts>>

vars == <<inputVal, debouncedValue, timer, elapsed, mounted, translations,
          isStreaming, error, currentRequestId, stream, pc, launched, quiet,
          emitted, nEvents, last, inputArea, outputArea>>

\* InputArea's localValue: every handler that calls onChange(v) calls
\* setLocalValue(v) with it, and the effect on [value] copies the prop
localValue == inputVal

-----------------------------------------------------------------------------
(* Bounds of the model: the number of events of the environment (an edit   *)
(* of the input, a chunk, the end or the failure of a stream) in a         *)
(* behaviour, and the milliseconds by which the clock advances in a step.  *)

MaxEvents == 5

TickMs == 400

\* the delay App gives useDebounce
DebounceDelay == 800

-----------------------------------------------------------------------------
(* Static data *)

TargetLanguageArrayTwice ==
  <<"Traditional Chinese", "English", "English", "Spanish">>

\* the array literal TARGET_LANGUAGES of types.ts, in its order
TargetLanguageArray ==
  <<"Traditional Chinese", "English", "Japanese", "Spanish">>

\* its elements
TARGET_LANGUAGES ==
  {TargetLanguageArray[i] : i \in 1..Len(TargetLanguageArray)}

\* values the user gives the input: empty, blank, and two texts
InputTexts == { <<>>, <<" ">>, <<"a">>, <<" ", "b">> }

\* values of chunk.text a stream yields
ChunkTexts == { <<>>, <<"x">>, <<"y">> }

NoError == "null"

FailedMessage == "One or more translations failed. Please try again."

\* ids "++currentRequestId.current" can issue within the bound
RequestIds == 1..(MaxEvents + 1)

-----------------------------------------------------------------------------
(* Pure helpers *)

IsSpace(c) == c = " "

RECURSIVE TrimStart(_)
TrimStart(s) ==
  IF s # <<>> /\ IsSpace(Head(s)) THEN TrimStart(Tail(s)) ELSE s

RECURSIVE TrimEnd(_)
TrimEnd(s) ==
  IF s # <<>> /\ IsSpace(s[Len(s)]) THEN TrimEnd(SubSeq(s, 1, Len(s) - 1)) ELSE s

TrimIdentity(s) == s

\* String.prototype.trim
Trim(s) == TrimEnd(TrimStart(s))

EmptyTranslations == [l \in TARGET_LANGUAGES |-> <<>>]

IsCurrentAlways(requestId) == TRUE

\* currentRequestId.current === requestId
IsCurrent(requestId) == currentRequestId = requestId

NextRequestIdStuck == IF currentRequestId = 0 THEN 1 ELSE currentRequestId

\* ++currentRequestId.current
NextRequestId == currentRequestId + 1

Settled(status) == status \in {"completed", "failed"}

MapPromiseNoCatch(status) ==
  IF status = "running" THEN "pending"
  ELSE IF status = "failed" THEN "rejected" ELSE "fulfilled"

\* the promise of one element of TARGET_LANGUAGES.map(async ...): the catch
\* around streamTranslation swallows the failure, so it never rejects
MapPromise(status) ==
  IF status = "running" THEN "pending" ELSE "fulfilled"

\* Promise.all(promises): rejected as soon as one is, fulfilled when all are
PromiseAll(g) ==
  IF \E l \in TARGET_LANGUAGES : MapPromise(stream[g][l]) = "rejected"
    THEN "rejected"
  ELSE IF \A l \in TARGET_LANGUAGES : MapPromise(stream[g][l]) = "fulfilled"
    THEN "fulfilled"
  ELSE "pending"

\* streamTranslation returns at once, without a request, for a blank text
LaunchStatus(text) == IF Trim(text) = <<>> THEN "completed" ELSE "running"

\* the arguments of the calls TARGET_LANGUAGES.map makes, one per element
Launches(text, requestId) ==
  [i \in 1..Len(TargetLanguageArray) |->
     [text |-> text, lang |-> TargetLanguageArray[i], requestId |-> requestId]]

NoOp ==
  [op |-> "mount", gen |-> 0, lang |-> "none", dirty |-> FALSE, from |-> <<>>]

\* InputArea and the OutputArea panels after their first render
WidgetsInit ==
  /\ isRecording = FALSE
  /\ isTranscribing = FALSE
  /\ recorder = "none"
  /\ closureValue = <<>>
  /\ heard = <<>>
  /\ isSpeaking = [l \in TARGET_LANGUAGES |-> FALSE]
  /\ tts = [l \in TARGET_LANGUAGES |-> 0]

-----------------------------------------------------------------------------
(* The state after the first render and its effects: the debounce timer of  *)
(* the initial value is armed, the effect on debouncedInput took its else   *)
(* branch.                                                                  *)
Init ==
  /\ inputVal = <<>>
  /\ debouncedValue = <<>>
  /\ timer = << <<>> >>
  /\ elapsed = 0
  /\ mounted = TRUE
  /\ launched = <<>>
  /\ quiet = 0
  /\ translations = EmptyTranslations
  /\ isStreaming = FALSE
  /\ error = NoError
  /\ currentRequestId = 0
  /\ stream = [g \in RequestIds |-> [l \in TARGET_LANGUAGES |-> "idle"]]
  /\ pc = [g \in RequestIds |-> "idle"]
  /\ emitted = [l \in TARGET_LANGUAGES |-> <<>>]
  /\ nEvents = 0
  /\ last = NoOp
  /\ WidgetsInit

-----------------------------------------------------------------------------
(* Operations *)

SetInputValKeepTimer(v) ==
  /\ v # inputVal
  /\ nEvents < MaxEvents
  /\ nEvents' = nEvents + 1
  /\ inputVal' = v
  /\ timer' = IF timer = <<>> THEN <<v>> ELSE timer
  /\ elapsed' = IF timer = <<>> THEN 0 ELSE elapsed
  /\ quiet' = 0
  /\ last' = [NoOp EXCEPT !.op = "input"]
  /\ launched' = <<>>
  /\ UNCHANGED <<debouncedValue, mounted, translations, isStreaming, error,
                 currentRequestId, stream, pc, emitted>>

\* InputArea's onChange -> setInputVal(v); useDebounce's effect cleanup clears
\* the pending timer and the effect arms a new one with v.  Setting the value
\* the state already has re-renders nothing.
SetInputVal(v) ==
  /\ v # inputVal
  /\ nEvents < MaxEvents
  /\ nEvents' = nEvents + 1
  /\ inputVal' = v
  /\ timer' = <<v>>
  /\ elapsed' = 0
  /\ quiet' = 0
  /\ last' = [NoOp EXCEPT !.op = "input"]
  /\ launched' = <<>>
  /\ UNCHANGED <<debouncedValue, mounted, translations, isStreaming, error,
                 currentRequestId, stream, pc, emitted>>

\* the textarea's onChange, handleChange: the textarea is disabled while
\* recording or transcribing
HandleChange(v) ==
  /\ ~isRecording
  /\ ~isTranscribing
  /\ SetInputVal(v)
  /\ UNCHANGED <<inputArea, outputArea>>

\* the reset of both blank-input branches
ResetEmpty ==
  /\ translations' = EmptyTranslations
  /\ isStreaming' = FALSE
  /\ launched' = <<>>
  /\ UNCHANGED <<error, currentRequestId, stream, pc, emitted>>

StartGenerationKeepText(text) ==
  LET requestId == NextRequestId IN
  /\ currentRequestId' = requestId
  /\ isStreaming' = TRUE
  /\ error' = NoError
  /\ translations' = translations
  /\ stream' = [stream EXCEPT ![requestId] =
                  [l \in TARGET_LANGUAGES |-> LaunchStatus(text)]]
  /\ pc' = [pc EXCEPT ![requestId] = "awaiting"]
  /\ launched' = Launches(text, requestId)
  /\ emitted' = [l \in TARGET_LANGUAGES |-> <<>>]

\* performTranslation from "const requestId = ++currentRequestId.current" to
\* the launch of the streams and the await
StartGeneration(text) ==
  LET requestId == NextRequestId IN
  /\ currentRequestId' = requestId
  /\ isStreaming' = TRUE
  /\ error' = NoError
  /\ translations' = EmptyTranslations
  /\ stream' = [stream EXCEPT ![requestId] =
                  [l \in TARGET_LANGUAGES |-> LaunchStatus(text)]]
  /\ pc' = [pc EXCEPT ![requestId] = "awaiting"]
  /\ launched' = Launches(text, requestId)
  /\ emitted' = [l \in TARGET_LANGUAGES |-> <<>>]

PerformTranslation(text) ==
  IF Trim(text) = <<>> THEN ResetEmpty ELSE StartGeneration(text)

\* the effect on [debouncedInput, performTranslation]
DebouncedEffect(v) ==
  IF Trim(v) # <<>> THEN PerformTranslation(v) ELSE ResetEmpty

TimerFireAlwaysEffect ==
  /\ timer # <<>>
  /\ LET v == timer[1] IN
       /\ timer' = <<>>
       /\ debouncedValue' = v
       /\ DebouncedEffect(v)
       /\ last' = [op |-> IF pc' # pc THEN "start" ELSE "empty",
                   gen |-> currentRequestId', lang |-> "none",
                   dirty |-> translations # EmptyTranslations,
                   from |-> debouncedValue]
  /\ UNCHANGED <<inputVal, elapsed, mounted, quiet, nEvents>>
  /\ UNCHANGED <<inputArea, outputArea>>

TimerFireRearm ==
  /\ timer # <<>>
  /\ LET v == timer[1] IN
       /\ timer' = timer
       /\ IF v = debouncedValue
            THEN /\ last' = [NoOp EXCEPT !.op = "same"]
                 /\ launched' = <<>>
                 /\ UNCHANGED <<debouncedValue, translations, isStreaming, error,
                                currentRequestId, stream, pc, emitted>>
            ELSE /\ debouncedValue' = v
                 /\ DebouncedEffect(v)
                 /\ last' = [op |-> IF pc' # pc THEN "start" ELSE "empty",
                             gen |-> currentRequestId', lang |-> "none",
                             dirty |-> translations # EmptyTranslations,
                             from |-> debouncedValue]
  /\ UNCHANGED <<inputVal, elapsed, mounted, quiet, nEvents>>
  /\ UNCHANGED <<inputArea, outputArea>>

\* the timeout of useDebounce fires: setDebouncedValue(value); an equal value
\* re-renders nothing, a changed one re-renders and runs the effect
TimerFire ==
  /\ timer # <<>>
  /\ LET v == timer[1] IN
       /\ timer' = <<>>
       /\ IF v = debouncedValue
            THEN /\ last' = [NoOp EXCEPT !.op = "same"]
                 /\ launched' = <<>>
                 /\ UNCHANGED <<debouncedValue, translations, isStreaming, error,
                                currentRequestId, stream, pc, emitted>>
            ELSE /\ debouncedValue' = v
                 /\ DebouncedEffect(v)
                 /\ last' = [op |-> IF pc' # pc THEN "start" ELSE "empty",
                             gen |-> currentRequestId', lang |-> "none",
                             dirty |-> translations # EmptyTranslations,
                             from |-> debouncedValue]
  /\ UNCHANGED <<inputVal, elapsed, mounted, quiet, nEvents>>
  /\ UNCHANGED <<inputArea, outputArea>>

OnChunkPrepend(requestId, lang, chunk) ==
  translations' =
    IF IsCurrent(requestId)
      THEN [translations EXCEPT ![lang] = chunk \o @]
      ELSE translations

\* the onChunk callback performTranslation hands to streamTranslation
OnChunk(requestId, lang, chunk) ==
  translations' =
    IF IsCurrent(requestId)
      THEN [translations EXCEPT ![lang] = @ \o chunk]
      ELSE translations

\* one turn of "for await (const chunk of resultStream)": an empty chunk.text
\* is not handed to onChunk
StreamChunk(g, lang, chunk) ==
  /\ stream[g][lang] = "running"
  /\ nEvents < MaxEvents
  /\ nEvents' = nEvents + 1
  /\ IF chunk # <<>>
       THEN OnChunk(g, lang, chunk)
       ELSE UNCHANGED translations
  /\ emitted' = IF g = currentRequestId /\ chunk # <<>>
                  THEN [emitted EXCEPT ![lang] = Append(@, chunk)]
                  ELSE emitted
  /\ last' = [NoOp EXCEPT !.op = IF chunk # <<>> THEN "chunk" ELSE "skip",
                          !.gen = g, !.lang = lang]
  /\ launched' = <<>>
  /\ UNCHANGED <<inputVal, debouncedValue, timer, elapsed, mounted, isStreaming,
                 error, currentRequestId, stream, pc, quiet>>
  /\ UNCHANGED <<inputArea, outputArea>>

StreamCompleteEmptyFails(g, lang) ==
  /\ stream[g][lang] = "running"
  /\ nEvents < MaxEvents
  /\ nEvents' = nEvents + 1
  /\ stream' = [stream EXCEPT ![g][lang] =
                  IF IsCurrent(g) /\ emitted[lang] = <<>>
                    THEN "failed" ELSE "completed"]
  /\ last' = [NoOp EXCEPT !.op = "complete", !.gen = g, !.lang = lang]
  /\ launched' = <<>>
  /\ UNCHANGED <<inputVal, debouncedValue, timer, elapsed, mounted, translations,
                 isStreaming, error, currentRequestId, pc, quiet,
                 emitted>>
  /\ UNCHANGED <<inputArea, outputArea>>

\* the stream ends normally: streamTranslation's promise fulfils
StreamComplete(g, lang) ==
  /\ stream[g][lang] = "running"
  /\ nEvents < MaxEvents
  /\ nEvents' = nEvents + 1
  /\ stream' = [stream EXCEPT ![g][lang] = "completed"]
  /\ last' = [NoOp EXCEPT !.op = "complete", !.gen = g, !.lang = lang]
  /\ launched' = <<>>
  /\ UNCHANGED <<inputVal, debouncedValue, timer, elapsed, mounted, translations,
                 isStreaming, error, currentRequestId, pc, quiet,
                 emitted>>
  /\ UNCHANGED <<inputArea, outputArea>>

StreamFailRollsBack(g, lang) ==
  /\ stream[g][lang] = "running"
  /\ nEvents < MaxEvents
  /\ nEvents' = nEvents + 1
  /\ stream' = [stream EXCEPT ![g][lang] = "failed"]
  /\ translations' = IF IsCurrent(g)
                        THEN [translations EXCEPT ![lang] = <<>>]
                        ELSE translations
  /\ last' = [NoOp EXCEPT !.op = "fail", !.gen = g, !.lang = lang]
  /\ launched' = <<>>
  /\ UNCHANGED <<inputVal, debouncedValue, timer, elapsed, mounted,
                 isStreaming, error, currentRequestId, pc, quiet,
                 emitted>>
  /\ UNCHANGED <<inputArea, outputArea>>

\* the request or the stream throws: streamTranslation logs and rethrows, the
\* catch in the map callback of performTranslation logs
StreamFail(g, lang) ==
  /\ stream[g][lang] = "running"
  /\ nEvents < MaxEvents
  /\ nEvents' = nEvents + 1
  /\ stream' = [stream EXCEPT ![g][lang] = "failed"]
  /\ last' = [NoOp EXCEPT !.op = "fail", !.gen = g, !.lang = lang]
  /\ launched' = <<>>
  /\ UNCHANGED <<inputVal, debouncedValue, timer, elapsed, mounted, translations,
                 isStreaming, error, currentRequestId, pc, quiet,
                 emitted>>
  /\ UNCHANGED <<inputArea, outputArea>>

FinishReportsAny(g) ==
  /\ pc[g] = "awaiting"
  /\ PromiseAll(g) # "pending"
  /\ pc' = [pc EXCEPT ![g] = "done"]
  /\ error' = IF \E l \in TARGET_LANGUAGES : stream[g][l] = "failed"
                THEN FailedMessage ELSE error
  /\ isStreaming' = IF IsCurrent(g) THEN FALSE ELSE isStreaming
  /\ last' = [NoOp EXCEPT !.op = "finish", !.gen = g]
  /\ launched' = <<>>
  /\ UNCHANGED <<inputVal, debouncedValue, timer, elapsed, mounted, translations,
                 currentRequestId, stream, quiet, emitted, nEvents>>
  /\ UNCHANGED <<inputArea, outputArea>>

\* performTranslation resumes after "await Promise.all(promises)": the catch
\* when it rejected, then the finally
Finish(g) ==
  /\ pc[g] = "awaiting"
  /\ PromiseAll(g) # "pending"
  /\ pc' = [pc EXCEPT ![g] = "done"]
  /\ error' = IF PromiseAll(g) = "rejected" /\ IsCurrent(g)
                THEN FailedMessage ELSE error
  /\ isStreaming' = IF IsCurrent(g) THEN FALSE ELSE isStreaming
  /\ last' = [NoOp EXCEPT !.op = "finish", !.gen = g]
  /\ launched' = <<>>
  /\ UNCHANGED <<inputVal, debouncedValue, timer, elapsed, mounted, translations,
                 currentRequestId, stream, quiet, emitted, nEvents>>
  /\ UNCHANGED <<inputArea, outputArea>>

Next ==
  \/ \E v \in InputTexts : HandleChange(v)
  \/ TimerFire
  \/ \E g \in RequestIds, l \in TARGET_LANGUAGES, c \in ChunkTexts : StreamChunk(g, l, c)
  \/ \E g \in RequestIds, l \in TARGET_LANGUAGES : StreamComplete(g, l)
  \/ \E g \in RequestIds, l \in TARGET_LANGUAGES : StreamFail(g, l)
  \/ \E g \in RequestIds : Finish(g)

\* Spec leaves the clock out: the timeout may fire at any moment after it was
\* set, which covers every timing of the events
Spec == Init /\ [][Next]_vars

\* a timer that is armed fires, and a continuation whose promise has settled
\* is run by the event loop
FairSpec ==
  /\ Spec
  /\ WF_vars(TimerFire)
  /\ \A g \in RequestIds : WF_vars(Finish(g))

-----------------------------------------------------------------------------
(* The debouncer with its clock.  Time passes in steps of TickMs while a   *)
(* timeout is pending; the runtime runs the callback of setTimeout(f,      *)
(* delay) no earlier than delay ms after the call.  The streams stay       *)
(* silent here: useDebounce reads nothing of them.                         *)

Min(a, b) == IF a <= b THEN a ELSE b

Tick ==
  /\ timer # <<>>
  /\ elapsed < DebounceDelay
  /\ elapsed' = Min(elapsed + TickMs, DebounceDelay)
  /\ quiet' = Min(quiet + TickMs, DebounceDelay)
  /\ launched' = <<>>
  /\ UNCHANGED <<inputVal, debouncedValue, timer, mounted, translations,
                 isStreaming, error, currentRequestId, stream, pc, emitted, nEvents, last>>
  /\ UNCHANGED <<inputArea, outputArea>>

\* the pending timeout has run its delay
TimerDue == timer # <<>> /\ elapsed >= DebounceDelay

UnmountKeepTimer ==
  /\ mounted
  /\ mounted' = FALSE
  /\ last' = [NoOp EXCEPT !.op = "unmount"]
  /\ launched' = <<>>
  /\ UNCHANGED <<inputVal, debouncedValue, timer, elapsed, translations,
                 isStreaming, error, currentRequestId, stream, pc, quiet, emitted, nEvents>>
  /\ UNCHANGED <<inputArea, outputArea>>

\* App is unmounted: React runs the cleanup of useDebounce's effect,
\* clearTimeout(handler)
Unmount ==
  /\ mounted
  /\ mounted' = FALSE
  /\ timer' = <<>>
  /\ last' = [NoOp EXCEPT !.op = "unmount"]
  /\ launched' = <<>>
  /\ UNCHANGED <<inputVal, debouncedValue, elapsed, translations, isStreaming,
                 error, currentRequestId, stream, pc, quiet, emitted,
                 nEvents>>
  /\ UNCHANGED <<inputArea, outputArea>>

\* an unmounted App has no input to edit
EditInput == mounted /\ \E v \in InputTexts : HandleChange(v)

TimerExpires == TimerDue /\ TimerFire

DebounceNext ==
  \/ EditInput
  \/ Tick
  \/ TimerExpires
  \/ Unmount

DebounceSpec == Init /\ [][DebounceNext]_vars

\* time passes, and the event loop runs a timeout that is due
FairDebounceSpec ==
  /\ DebounceSpec
  /\ WF_vars(Tick)
  /\ WF_vars(TimerExpires)

-----------------------------------------------------------------------------
(* The controller observed from the moment a first request is in flight:   *)
(* the user typed a text, the debounce timer fired and performTranslation  *)
(* launched the streams of request 1.  The events are counted from there,  *)
(* and the streams end or fail without a chunk, which leaves the budget of *)
(* events to the edits and to the settling of two requests.                *)
InFlightInit ==
  /\ inputVal \in {t \in InputTexts : Trim(t) # <<>>}
  /\ debouncedValue = inputVal
  /\ timer = <<>>
  /\ elapsed = 0
  /\ mounted = TRUE
  /\ launched = Launches(inputVal, 1)
  /\ quiet = 0
  /\ translations = EmptyTranslations
  /\ isStreaming = TRUE
  /\ error = NoError
  /\ currentRequestId = 1
  /\ stream = [g \in RequestIds |->
                 [l \in TARGET_LANGUAGES |-> IF g = 1 THEN "running" ELSE "idle"]]
  /\ pc = [g \in RequestIds |-> IF g = 1 THEN "awaiting" ELSE "idle"]
  /\ emitted = [l \in TARGET_LANGUAGES |-> <<>>]
  /\ nEvents = 0
  /\ last = [NoOp EXCEPT !.op = "start", !.gen = 1]
  /\ WidgetsInit

SettleNext ==
  \/ \E v \in InputTexts : HandleChange(v)
  \/ TimerFire
  \/ \E g \in RequestIds, l \in TARGET_LANGUAGES : StreamComplete(g, l)
  \/ \E g \in RequestIds, l \in TARGET_LANGUAGES : StreamFail(g, l)
  \/ \E g \in RequestIds : Finish(g)

InFlightSpec == InFlightInit /\ [][SettleNext]_vars

-----------------------------------------------------------------------------
(* InputArea (src/unnamed/part_001): the clear button, the microphone      *)
(* button and the path from a stopped recording to the transcript.  One    *)
(* recording is followed at a time: from the click to the moment           *)
(* transcribeAudio has settled.                                            *)

\* values of "result.text || ''" transcribeAudio resolves with
Transcripts == { <<>>, <<"t">> }

appVars == <<inputVal, debouncedValue, timer, elapsed, mounted, translations,
             isStreaming, error, currentRequestId, stream, pc, launched, quiet,
             emitted, nEvents, last>>

\* handleClear; the button is rendered while localValue is not empty and is
\* never disabled
HandleClear ==
  /\ localValue # <<>>
  /\ SetInputVal(<<>>)
  /\ UNCHANGED <<inputArea, outputArea>>

\* toggleRecording while not recording: startRecording up to its await of
\* getUserMedia; the handler is the one of the current render, so it holds
\* the localValue of that render
ClickMic ==
  /\ ~isTranscribing
  /\ ~isRecording
  /\ recorder \in {"none", "done"}
  /\ recorder' = "asking"
  /\ closureValue' = localValue
  /\ UNCHANGED <<appVars, isRecording, isTranscribing, heard, outputArea>>

\* getUserMedia resolves: the handlers are set, mediaRecorder.start(),
\* setIsRecording(true)
MicGranted ==
  /\ recorder = "asking"
  /\ recorder' = "recording"
  /\ isRecording' = TRUE
  /\ UNCHANGED <<appVars, isTranscribing, closureValue, heard, outputArea>>

\* getUserMedia rejects: the catch of startRecording alerts
MicDenied ==
  /\ recorder = "asking"
  /\ recorder' = "none"
  /\ UNCHANGED <<appVars, isRecording, isTranscribing, closureValue, heard,
                 outputArea>>

\* toggleRecording while recording: stopRecording
StopRecording ==
  /\ ~isTranscribing
  /\ isRecording
  /\ recorder = "recording"
  /\ recorder' = "stopped"
  /\ isRecording' = FALSE
  /\ UNCHANGED <<appVars, isTranscribing, closureValue, heard, outputArea>>

\* mediaRecorder.onstop: setIsTranscribing(true), reader.readAsDataURL
OnStop ==
  /\ recorder = "stopped"
  /\ recorder' = "reading"
  /\ isTranscribing' = TRUE
  /\ UNCHANGED <<appVars, isRecording, closureValue, heard, outputArea>>

\* reader.onloadend up to its await of transcribeAudio
OnLoadEnd ==
  /\ recorder = "reading"
  /\ recorder' = "calling"
  /\ UNCHANGED <<appVars, isRecording, isTranscribing, closureValue, heard,
                 outputArea>>

\* "localValue ? localValue + ' ' + text : text" with the localValue given
WithTranscript(value, text) ==
  IF value # <<>> THEN value \o <<" ">> \o text ELSE text

\* transcribeAudio resolves with text: reader.onloadend resumes
TranscribeFulfil(text) ==
  /\ recorder = "calling"
  /\ recorder' = "done"
  /\ heard' = text
  /\ LET newValue == WithTranscript(closureValue, text) IN
       IF text # <<>> /\ newValue # inputVal
         THEN SetInputVal(newValue)
         ELSE UNCHANGED appVars
  /\ isTranscribing' = FALSE
  /\ UNCHANGED <<isRecording, closureValue, outputArea>>

\* transcribeAudio rejects: the async reader.onloadend rejects in turn, no
\* handler catches it and nothing after the await runs
TranscribeReject ==
  /\ recorder = "calling"
  /\ recorder' = "failed"
  /\ UNCHANGED <<appVars, isRecording, isTranscribing, closureValue, heard,
                 outputArea>>

InputAreaNext ==
  \/ \E v \in InputTexts : HandleChange(v)
  \/ HandleClear
  \/ TimerFire
  \/ ClickMic
  \/ MicGranted
  \/ MicDenied
  \/ StopRecording
  \/ OnStop
  \/ OnLoadEnd
  \/ \E text \in Transcripts : TranscribeFulfil(text)
  \/ TranscribeReject

InputAreaSpec == Init /\ [][InputAreaNext]_vars

-----------------------------------------------------------------------------
(* The OutputArea panels (src/components/LanguageSelector.tsx): the speak  *)
(* button of the panel of each language, observed while request 1 streams  *)
(* its chunks.  A click and the settling of a playTextToSpeech call are    *)
(* events of the environment.                                              *)

HandleSpeakUnguarded(lang) ==
  /\ nEvents < MaxEvents
  /\ nEvents' = nEvents + 1
  /\ isSpeaking' = [isSpeaking EXCEPT ![lang] = TRUE]
  /\ tts' = [tts EXCEPT ![lang] = @ + 1]
  /\ last' = [NoOp EXCEPT !.op = "speak", !.lang = lang]
  /\ UNCHANGED <<inputVal, debouncedValue, timer, elapsed, mounted, translations,
                 isStreaming, error, currentRequestId, stream, pc, launched,
                 quiet, emitted, inputArea>>

\* handleSpeak of the panel of lang, up to its await of playTextToSpeech
HandleSpeak(lang) ==
  /\ nEvents < MaxEvents
  /\ nEvents' = nEvents + 1
  /\ IF translations[lang] = <<>> \/ isSpeaking[lang]
       THEN /\ last' = [NoOp EXCEPT !.op = "speak-ignored", !.lang = lang]
            /\ UNCHANGED outputArea
       ELSE /\ isSpeaking' = [isSpeaking EXCEPT ![lang] = TRUE]
            /\ tts' = [tts EXCEPT ![lang] = @ + 1]
            /\ last' = [NoOp EXCEPT !.op = "speak", !.lang = lang]
  /\ UNCHANGED <<inputVal, debouncedValue, timer, elapsed, mounted, translations,
                 isStreaming, error, currentRequestId, stream, pc, launched,
                 quiet, emitted, inputArea>>

\* playTextToSpeech resolves (the audio was started) or rejects (the request
\* failed, no audio data): handleSpeak resumes, logs a failure, and its
\* finally runs
TtsSettle(lang, outcome) ==
  /\ tts[lang] > 0
  /\ nEvents < MaxEvents
  /\ nEvents' = nEvents + 1
  /\ tts' = [tts EXCEPT ![lang] = @ - 1]
  /\ isSpeaking' = [isSpeaking EXCEPT ![lang] = FALSE]
  /\ last' = [NoOp EXCEPT !.op = outcome, !.lang = lang]
  /\ UNCHANGED <<inputVal, debouncedValue, timer, elapsed, mounted, translations,
                 isStreaming, error, currentRequestId, stream, pc, launched,
                 quiet, emitted, inputArea>>

TtsFulfil(lang) == TtsSettle(lang, "spoken")

TtsReject(lang) == TtsSettle(lang, "speak-failed")

SpeakNext ==
  \/ \E g \in RequestIds, l \in TARGET_LANGUAGES, c \in ChunkTexts : StreamChunk(g, l, c)
  \/ \E l \in TARGET_LANGUAGES : HandleSpeak(l)
  \/ \E l \in TARGET_LANGUAGES : TtsFulfil(l)
  \/ \E l \in TARGET_LANGUAGES : TtsReject(l)

SpeakSpec == InFlightInit /\ [][SpeakNext]_vars

-----------------------------------------------------------------------------
(* Vocabulary of the properties *)

Blank(s) == \A i \in 1..Len(s) : s[i] = " "

RECURSIVE Concat(_)
Concat(chunks) ==
  IF chunks = <<>> THEN <<>> ELSE Head(chunks) \o Concat(Tail(chunks))

AllSettled(g) == \A l \in TARGET_LANGUAGES : Settled(stream[g][l])

SomeRunning(g) == \E l \in TARGET_LANGUAGES : stream[g][l] = "running"

SomeFailed(g) == \E l \in TARGET_LANGUAGES : stream[g][l] = "failed"

\* the streams of the latest-issued request have all settled
LatestSettled ==
  currentRequestId \in RequestIds /\ AllSettled(currentRequestId)

\* the step is the handling of a debounced input that changed to v
DebouncedChange == TimerFire /\ debouncedValue' # debouncedValue

PrefixOf(s, t) == Len(s) <= Len(t) /\ SubSeq(t, 1, Len(s)) = s

\* the step issues a request id
RequestIssued == currentRequestId' # currentRequestId

\* the step hands a non-empty chunk of the latest request to onChunk
CurrentChunkApplied ==
  \E l \in TARGET_LANGUAGES, c \in ChunkTexts \ {<<>>} :
    /\ currentRequestId \in RequestIds
    /\ StreamChunk(currentRequestId, l, c)
    /\ translations' = [translations EXCEPT ![l] = @ \o c]

-----------------------------------------------------------------------------
(* C1  Staleness suppression: once a later request has been started, a      *)
(* chunk callback of a stream of an earlier request changes no language's   *)
(* text, wherever it falls among the chunks of the later request.           *)
C1_StaleChunkSuppressed ==
  [][\A g \in RequestIds, l \in TARGET_LANGUAGES, c \in ChunkTexts :
       (g < currentRequestId /\ StreamChunk(g, l, c))
         => translations' = translations]_vars

\* a non-empty chunk of request 1 was delivered after a chunk of request 2
\* had been applied
C1_Witness ==
  /\ last.op = "chunk"
  /\ last.gen < currentRequestId
  /\ \E l \in TARGET_LANGUAGES : emitted[l] # <<>> /\ translations[l] = Concat(emitted[l])

(* C2  Empty input supersedes in-flight work: after the debounced input     *)
(* became empty or blank, no chunk of the request in flight changes the     *)
(* texts: they stay empty until a non-blank input starts a new request.     *)
(* (Every start of a request makes debouncedValue non-blank, so a blank     *)
(* debouncedValue means no request was started since it became blank.)      *)
C2_EmptyInputSupersedes ==
  Blank(debouncedValue) => translations = EmptyTranslations

(* C3  Completion gating (safety): while a stream of the latest-issued      *)
(* request has not settled, isStreaming is true.                            *)
C3_StreamingWhileUnsettled ==
  \A g \in RequestIds :
    (IsCurrent(g) /\ SomeRunning(g)) => isStreaming

\* where C3 diverges: the invariant holds as long as the debounced input is
\* not blank
C3_HoldsWhileInputNotBlank ==
  \A g \in RequestIds :
    (IsCurrent(g) /\ SomeRunning(g) /\ ~Blank(debouncedValue)) => isStreaming

(* C4  Completion gating (liveness): isStreaming does not stay true for     *)
(* ever once the streams of the latest request have all settled (they stay  *)
(* settled, and the request stays the latest unless a newer one starts);    *)
(* and the completion step of a request runs, and clears the flag, only     *)
(* when all its streams have settled.                                       *)
C4_CompletionClearsStreaming ==
  /\ []<>(~(LatestSettled /\ isStreaming))
  /\ [][\A g \in RequestIds : Finish(g) => AllSettled(g)]_vars

\* the completion step of the current request has cleared the flag after its
\* four streams settled
C4_Witness ==
  /\ last.op = "finish"
  /\ IsCurrent(last.gen)
  /\ AllSettled(last.gen)
  /\ ~isStreaming
  /\ ~Blank(debouncedValue)

(* C5  Aggregate error reporting: when the streams of the current request   *)
(* have all settled and its completion step has run, error is set if one    *)
(* of the streams failed.                                                   *)
C5_ErrorSetAfterFailure ==
  \A g \in RequestIds :
    (IsCurrent(g) /\ pc[g] = "done" /\ SomeFailed(g)) => error # NoError

\* where C5 diverges: error is never set at all
C5_ErrorNeverSet == error = NoError

(* C6  Independent failure isolation: when a stream of the current request  *)
(* has failed, every other stream of the request that has completed has     *)
(* had all its chunks applied: its language's text is the concatenation of  *)
(* the chunks it emitted.                                                   *)
C6_SiblingsKeepFullText ==
  \A g \in RequestIds :
    (IsCurrent(g) /\ SomeFailed(g)) =>
      \A l \in TARGET_LANGUAGES :
        stream[g][l] = "completed" => translations[l] = Concat(emitted[l])

\* where C6 diverges: it holds for a request that no blank input reset
C6_HoldsWhileInputNotBlank ==
  \A g \in RequestIds :
    (IsCurrent(g) /\ SomeFailed(g) /\ ~Blank(debouncedValue)) =>
      \A l \in TARGET_LANGUAGES :
        stream[g][l] = "completed" => translations[l] = Concat(emitted[l])

(* C7  Append-order fidelity: for the current request, each language's text *)
(* is the concatenation, in emission order, of the chunks its stream has    *)
(* delivered, however the chunks of the other languages interleave.         *)
C7_TextIsConcatenation ==
  \A g \in RequestIds :
    IsCurrent(g) =>
      \A l \in TARGET_LANGUAGES : translations[l] = Concat(emitted[l])

\* where C7 diverges: it holds for a request that no blank input reset
C7_HoldsWhileInputNotBlank ==
  \A g \in RequestIds :
    (IsCurrent(g) /\ ~Blank(debouncedValue)) =>
      \A l \in TARGET_LANGUAGES : translations[l] = Concat(emitted[l])

(* C8  Empty-input reset: handling a debounced input that became empty or   *)
(* blank leaves every language's text empty and isStreaming false, and      *)
(* launches no stream: no request id is issued and no stream changes state. *)
C8_EmptyInputReset ==
  [][(DebouncedChange /\ Blank(debouncedValue'))
       => /\ translations' = EmptyTranslations
          /\ ~isStreaming'
          /\ stream' = stream
          /\ pc' = pc
          /\ currentRequestId' = currentRequestId]_vars

\* a blank input has just been handled in a state that had accumulated text
C8_Witness ==
  /\ last.op = "empty"
  /\ last.dirty
  /\ Blank(debouncedValue)
  /\ translations = EmptyTranslations

(* C9  Generation monotonicity: every start of a request issues an id       *)
(* greater than every id issued before; of the ids issued, exactly the      *)
(* latest passes the is-current check; an id that fails it never passes it  *)
(* again.                                                                   *)
C9_GenerationMonotonic ==
  /\ [][(DebouncedChange /\ ~Blank(debouncedValue'))
         => /\ currentRequestId' \in RequestIds
            /\ pc[currentRequestId'] = "idle"
            /\ pc'[currentRequestId'] = "awaiting"
            /\ \A h \in RequestIds : pc[h] # "idle" => h < currentRequestId']_vars
  /\ [](\A g \in RequestIds :
         pc[g] # "idle" =>
           (IsCurrent(g) <=> \A h \in RequestIds : pc[h] # "idle" => h <= g))
  /\ [][\A g \in RequestIds :
         (pc[g] # "idle" /\ ~IsCurrent(g)) => ~(currentRequestId' = g)]_vars

\* two requests were started and a callback of the first ran afterwards
C9_Witness ==
  /\ currentRequestId = 2
  /\ pc[1] # "idle"
  /\ pc[2] # "idle"
  /\ last.gen = 1
  /\ last.op \in {"chunk", "finish"}

(* C10  Generation start reset: the start of a request for a non-blank      *)
(* text leaves every language's text empty, error null and isStreaming      *)
(* true, whatever text the previous request left.                           *)
C10_StartResets ==
  [][(DebouncedChange /\ ~Blank(debouncedValue'))
       => /\ translations' = EmptyTranslations
          /\ error' = NoError
          /\ isStreaming']_vars

\* a request has just been started in a state that had text of the previous
\* request, and none of its chunks has been applied
C10_Witness ==
  /\ last.op = "start"
  /\ last.dirty
  /\ currentRequestId = 2
  /\ translations = EmptyTranslations
  /\ isStreaming

-----------------------------------------------------------------------------
(* C11  Superseded completion is a no-op: when the streams of a request    *)
(* have all settled after a newer request was started, the continuation of *)
(* the older performTranslation changes neither isStreaming nor error; in  *)
(* particular isStreaming, true while the newer request has unsettled      *)
(* streams, stays true across that step.                                   *)
C11_SupersededFinishNoOp ==
  [][\A g \in RequestIds :
       (Finish(g) /\ g < currentRequestId)
         => /\ isStreaming' = isStreaming
            /\ error' = error
            /\ (isStreaming /\ SomeRunning(currentRequestId)) => isStreaming']_vars

\* the continuation of a superseded request, one of whose streams failed, has
\* run while the newer request still has running streams
C11_Witness ==
  /\ last.op = "finish"
  /\ last.gen < currentRequestId
  /\ pc[last.gen] = "done"
  /\ SomeFailed(last.gen)
  /\ SomeRunning(currentRequestId)
  /\ isStreaming
  /\ error = NoError

-----------------------------------------------------------------------------
(* C12  Append-only within a generation: in a step that issues no request  *)
(* id every language's text keeps its old value as a prefix, so a text     *)
(* shrinks or is cleared only in the step that starts a request; and a     *)
(* step that changes a text is the start of a request or the application   *)
(* of a chunk of the latest request.                                       *)
C12_AppendOnly ==
  /\ [][~RequestIssued
          => \A l \in TARGET_LANGUAGES : PrefixOf(translations[l], translations'[l])]_vars
  /\ [][translations' # translations => (RequestIssued \/ CurrentChunkApplied)]_vars

\* what holds of the code: the reset of a blank debounced input is a third
\* writer, and the only one that shrinks a text without issuing an id
C12_HoldsButForBlankReset ==
  [][translations' # translations
       => \/ RequestIssued /\ translations' = EmptyTranslations
          \/ CurrentChunkApplied
          \/ DebouncedChange /\ Blank(debouncedValue') /\ translations' = EmptyTranslations]_vars

-----------------------------------------------------------------------------
(* C13  Debounce safety: the debounced value changes only to the value the *)
(* input has then, and only when the input has been unchanged for the full *)
(* delay; every change of the input restarts the wait from zero; so a      *)
(* request is started only for such a value, never for an intermediate     *)
(* value of a burst.                                                       *)
C13_DebounceSafety ==
  /\ [][debouncedValue' # debouncedValue
          => (debouncedValue' = inputVal /\ quiet >= DebounceDelay)]_vars
  /\ [][inputVal' # inputVal
          => (timer' = <<inputVal'>> /\ elapsed' = 0)]_vars
  /\ [][RequestIssued
          => /\ quiet >= DebounceDelay
             /\ \A i \in 1..Len(launched') : launched'[i].text = inputVal]_vars

\* two edits, the first never emitted (the debounced value was still the
\* initial one when the timer fired), then the emission of the second, which
\* started request 1
C13_Witness ==
  /\ nEvents = 2
  /\ last.op = "start"
  /\ last.from = <<>>
  /\ currentRequestId = 1
  /\ debouncedValue = inputVal
  /\ quiet = DebounceDelay

-----------------------------------------------------------------------------
(* C14  Debounce emission: once the input stops changing the timer goes    *)
(* off, after which the debounced value is the last input value; the step  *)
(* that emits leaves no timer armed, and a timer is armed again only by a  *)
(* change of the input, so the emission is not repeated.                   *)
C14_DebounceEmission ==
  /\ []<>(~mounted \/ (timer = <<>> /\ debouncedValue = inputVal))
  /\ [](mounted /\ timer = <<>> => debouncedValue = inputVal)
  /\ [][(timer # <<>> /\ (debouncedValue' # debouncedValue \/ last'.op = "same"))
          => timer' = <<>>]_vars
  /\ [][(timer = <<>> /\ timer' # <<>>) => inputVal' # inputVal]_vars

\* the input was quiet for the delay and its value was emitted: request 1 was
\* started for it and no timer is left
C14_Witness ==
  /\ mounted
  /\ last.op = "start"
  /\ timer = <<>>
  /\ quiet = DebounceDelay
  /\ debouncedValue = inputVal
  /\ launched[1].text = inputVal

-----------------------------------------------------------------------------
(* C15  Debounce teardown: the unmount of the component clears the pending *)
(* timer without emitting; once unmounted no timer is armed and the        *)
(* debounced value never changes again.                                    *)
C15_TeardownCancels ==
  /\ [][(mounted /\ ~mounted')
          => (timer' = <<>> /\ debouncedValue' = debouncedValue)]_vars
  /\ [](~mounted => timer = <<>>)
  /\ [][~mounted => debouncedValue' = debouncedValue]_vars

\* unmounted while the emission of an edit was pending and already due
C15_Witness ==
  /\ ~mounted
  /\ last.op = "unmount"
  /\ inputVal # debouncedValue
  /\ elapsed = DebounceDelay
  /\ timer = <<>>

-----------------------------------------------------------------------------
(* C16  Error belongs to the current generation: whenever error is set,    *)
(* some stream of the latest request has failed; the failure of a stream   *)
(* of a superseded request, and the continuation of that request, leave    *)
(* error as it was; and the start of a request leaves error null.          *)
C16_ErrorOfCurrent ==
  /\ [](error # NoError
          => (currentRequestId \in RequestIds /\ SomeFailed(currentRequestId)))
  /\ [][\A g \in RequestIds :
          (g < currentRequestId
             /\ ((\E l \in TARGET_LANGUAGES : StreamFail(g, l)) \/ Finish(g)))
            => error' = error]_vars
  /\ [][RequestIssued => error' = NoError]_vars

\* a superseded request, one of whose streams failed, has run its
\* continuation while no stream of the latest request has failed
C16_Witness ==
  \E g \in RequestIds :
    /\ g < currentRequestId
    /\ last.op = "finish"
    /\ last.gen = g
    /\ SomeFailed(g)
    /\ ~SomeFailed(currentRequestId)
    /\ error = NoError

-----------------------------------------------------------------------------
(* C17  Zero-chunk success: when a stream of the latest request ends       *)
(* normally without having handed a chunk to onChunk, it is completed, its *)
(* language's text is empty and error is unchanged; and it counts as       *)
(* settled: once all streams of the request have ended the continuation    *)
(* can run, and it clears isStreaming.                                     *)
C17_ZeroChunkSuccess ==
  /\ [][\A g \in RequestIds, l \in TARGET_LANGUAGES :
          (StreamComplete(g, l) /\ g = currentRequestId /\ emitted[l] = <<>>)
            => /\ stream'[g][l] = "completed"
               /\ translations'[l] = <<>>
               /\ error' = error]_vars
  /\ [](\A g \in RequestIds :
          (pc[g] = "awaiting" /\ \A l \in TARGET_LANGUAGES : stream[g][l] # "running")
            => ENABLED Finish(g))
  /\ [][\A g \in RequestIds :
          (Finish(g) /\ g = currentRequestId) => (~isStreaming' /\ error' = error)]_vars

\* the latest request finished with a stream that completed without a chunk
C17_Witness ==
  /\ last.op = "finish"
  /\ last.gen = currentRequestId
  /\ ~isStreaming
  /\ error = NoError
  /\ \E l \in TARGET_LANGUAGES :
       /\ stream[currentRequestId][l] = "completed"
       /\ emitted[l] = <<>>
       /\ translations[l] = <<>>

-----------------------------------------------------------------------------
(* C18  Fan-out shape: the step that starts a request for a non-blank text *)
(* calls streamTranslation four times, once for each of the four target    *)
(* languages, every call with the debounced text and with the id the step  *)
(* issued, and each of the four streams is then running.                   *)
TargetLanguageNames == {"Traditional Chinese", "English", "Japanese", "Spanish"}

C18_FanOutShape ==
  [][(DebouncedChange /\ ~Blank(debouncedValue'))
       => /\ RequestIssued
          /\ Len(launched') = 4
          /\ \A l \in TargetLanguageNames :
               Cardinality({i \in 1..Len(launched') : launched'[i].lang = l}) = 1
          /\ \A i \in 1..Len(launched') :
               /\ launched'[i].text = debouncedValue'
               /\ launched'[i].requestId = currentRequestId'
          /\ \A l \in TargetLanguageNames :
               /\ stream[currentRequestId'][l] = "idle"
               /\ stream'[currentRequestId'][l] = "running"]_vars

\* the second request was started, for a text other than the first one's
C18_Witness ==
  /\ last.op = "start"
  /\ currentRequestId = 2
  /\ Len(launched) = 4
  /\ \A i \in 1..Len(launched) :
       launched[i].text = debouncedValue /\ launched[i].requestId = 2
  /\ last.from # debouncedValue
  /\ ~Blank(last.from)
  /\ \A l \in TargetLanguageNames : stream[2][l] = "running"

-----------------------------------------------------------------------------
(* C19  Partial output survives a failure: the step in which a stream      *)
(* fails changes no language's text; so the text of the failed stream's    *)
(* language, when it is the concatenation of the chunks applied so far,    *)
(* is still that concatenation after the failure.                          *)
C19_PartialOutputSurvives ==
  [][\A g \in RequestIds, l \in TARGET_LANGUAGES :
       StreamFail(g, l)
         => /\ translations' = translations
            /\ stream'[g][l] = "failed"
            /\ (g = currentRequestId /\ translations[l] = Concat(emitted[l]))
                 => translations'[l] = Concat(emitted'[l])]_vars

\* a stream of the latest request failed after a chunk of it was applied,
\* while another language has text too
C19_Witness ==
  /\ last.op = "fail"
  /\ last.gen = currentRequestId
  /\ stream[last.gen][last.lang] = "failed"
  /\ emitted[last.lang] # <<>>
  /\ translations[last.lang] = Concat(emitted[last.lang])
  /\ \E l \in TARGET_LANGUAGES : l # last.lang /\ translations[l] # <<>>

-----------------------------------------------------------------------------
(* C20  Unchanged debounced value is inert: the step in which the timer    *)
(* goes off with the value the debounced value already has starts no       *)
(* request and leaves the request id, the texts, isStreaming, error and    *)
(* the streams as they were; a chunk of the latest request that arrives    *)
(* next is appended as before.                                             *)
C20_UnchangedValueInert ==
  /\ [][(timer # <<>> /\ timer' = <<>> /\ mounted' /\ timer[1] = debouncedValue)
          => /\ UNCHANGED <<debouncedValue, currentRequestId, translations,
                            isStreaming, error, stream, pc>>
             /\ last'.op = "same"]_vars
  /\ [][\A l \in TARGET_LANGUAGES, c \in ChunkTexts \ {<<>>} :
          (last.op = "same" /\ currentRequestId \in RequestIds
             /\ StreamChunk(currentRequestId, l, c))
            => translations' = [translations EXCEPT ![l] = @ \o c]]_vars

\* the user edited and reverted while the streams of the latest request
\* were running and had given text: the timer went off with the debounced
\* value
C20_Witness ==
  /\ last.op = "same"
  /\ currentRequestId \in RequestIds
  /\ SomeRunning(currentRequestId)
  /\ isStreaming
  /\ translations # EmptyTranslations
  /\ ~Blank(debouncedValue)
  /\ inputVal = debouncedValue
  /\ nEvents >= 4

-----------------------------------------------------------------------------
(* C21  Transcription always finishes: once the transcription call of a    *)
(* stopped recording has settled, with a text, with the empty text or with *)
(* a failure, isTranscribing is false again, so the textarea and the       *)
(* microphone button are not left disabled.                                *)
C21_TranscriptionFinishes ==
  recorder \in {"done", "failed"} => ~isTranscribing

\* what holds of the code: a call that resolves clears the flag, and after a
\* call that rejected the flag is true for ever, with no way to record again
C21_FinishesUnlessRejected ==
  /\ [](recorder = "done" => ~isTranscribing)
  /\ [][recorder = "failed"
          => (recorder' = "failed" /\ isTranscribing' /\ ~ENABLED ClickMic)]_vars

-----------------------------------------------------------------------------
(* C22  Transcript is appended to the current input: the step in which a   *)
(* transcription resolves with a non-empty text sets the input to the      *)
(* value the input has at that moment, a space and the transcript, or to   *)
(* the transcript alone when the input is empty at that moment.            *)
C22_TranscriptAppendedToCurrent ==
  [][(recorder = "calling" /\ recorder' = "done" /\ heard' # <<>>)
       => inputVal' = IF inputVal = <<>>
                        THEN heard'
                        ELSE inputVal \o <<" ">> \o heard']_vars

\* what holds of the code: the transcript is appended to the value the
\* input had when the microphone button was clicked
C22_AppendedToValueAtClick ==
  [][(recorder = "calling" /\ recorder' = "done" /\ heard' # <<>>)
       => inputVal' = IF closureValue = <<>>
                        THEN heard'
                        ELSE closureValue \o <<" ">> \o heard']_vars

-----------------------------------------------------------------------------
(* C23  Speak mutual exclusion: a panel has at most one playTextToSpeech   *)
(* call in flight; handleSpeak called while the panel's isSpeaking is true *)
(* or its translation is empty changes nothing; isSpeaking is true exactly *)
(* while the call is in flight, so it is false again once the call has     *)
(* settled, fulfilled or rejected.                                         *)
C23_SpeakMutualExclusion ==
  /\ [](\A l \in TARGET_LANGUAGES : tts[l] <= 1)
  /\ [](\A l \in TARGET_LANGUAGES : isSpeaking[l] <=> tts[l] = 1)
  /\ [][\A l \in TARGET_LANGUAGES :
          ((isSpeaking[l] \/ translations[l] = <<>>) /\ HandleSpeak(l))
            => UNCHANGED <<isSpeaking, tts>>]_vars
  /\ [][\A l \in TARGET_LANGUAGES :
          tts'[l] < tts[l] => (~isSpeaking'[l] /\ tts'[l] = 0)]_vars

\* a second click on the speak button of a panel whose first call is still
\* in flight was ignored
C23_Witness ==
  /\ last.op = "speak-ignored"
  /\ translations[last.lang] # <<>>
  /\ isSpeaking[last.lang]
  /\ tts[last.lang] = 1

====
